---- MODULE Spec2Model ----
(***************************************************************************)
(* Model of SendMessageFancy.selectIntermediateNodes (hopr-chat): the      *)
(* interactive loop that builds the list of intermediate peers of a manual *)
(* route, together with the readline interface it takes over.              *)
(*                                                                         *)
(* JavaScript runs every handler to completion: a state of this model is   *)
(* a point where the selector is suspended in an await (the open-channel   *)
(* query of line 129, the line promise of line 151) or has returned.       *)
(* Strings are sequences of one-character strings, so that emptiness,      *)
(* whitespace and prefixes are computed and not assumed.                   *)
(***************************************************************************)
EXTENDS Integers, Sequences, FiniteSets, TLC

\* ------------------------------------------------------------------ bounds
NumPeers == 3      \* peers known to the parser: 1..NumPeers
MaxMaxHops == 3    \* MAX_HOPS ranges up to this value
MaxLines == 3      \* lines the operator submits in one behaviour
MaxPending == 2    \* checkPeerIdInput calls pending at the same time
MaxSends == 2      \* executions of a send command in one behaviour
MaxChannels == 2   \* open channels the node reports
Decimals == 1      \* types.Balance.DECIMALS

\* ------------------------------------------------------------- peers, text
Peers == 1..NumPeers

\* this.node.peerInfo.id, the local node
Self == 1

Alphabet == <<"a", "b", "c", "d", "e", "f", "g", "h">>

\* PeerId.toB58String(): the text of a peer identifier
toB58String(peer) == <<IF peer % 2 = 1 THEN "Q" ELSE "R", Alphabet[peer]>>

\* `undefined`, which is no peer
Undefined == 0

\* a promise: not settled yet, or resolved with a value
\* (`line` is the number of the submitted line that resolved it, 0 for none)
Pending == [settled |-> FALSE, value |-> Undefined, line |-> 0]
Resolved(value, line) == [settled |-> TRUE, value |-> value, line |-> line]

\* checkPeerIdInput(query): the peer the text names, or a rejection (its
\* promise throws in the handler that awaits it)
checkPeerIdInput(query) ==
    IF \E p \in Peers : toB58String(p) = query
    THEN [ok |-> TRUE, peerId |-> CHOOSE p \in Peers : toB58String(p) = query]
    ELSE [ok |-> FALSE, peerId |-> Undefined]

\* PeerId.equals
Equals(a, b) == a = b

\* getOpenChannels(node, peer): the peers `peer` has an open channel to
getOpenChannels(peer) ==
    IF peer = NumPeers THEN {}
    ELSE {q \in Peers : q # peer /\ (q - peer) % NumPeers \in {1, 2}}

\* the lines an operator submits: empty, blank, malformed, peer identifiers
EmptyLine == <<>>
BlankLine == <<" ", " ">>
Malformed == <<"Q", "!">>
Lines == {EmptyLine, BlankLine, Malformed} \cup {toB58String(p) : p \in Peers}

\* String.prototype.startsWith
startsWith(s, prefix) ==
    /\ Len(prefix) <= Len(s)
    /\ \A i \in 1..Len(prefix) : s[i] = prefix[i]

\* the listeners and the completer of the selector, and the application's
SelectorListener == "selectorListener"
SelectorCompleter == "selectorCompleter"
SelectorPrompt == <<>>
AppListeners == <<"appListener1", "appListener2">>
AppCompleter == "appCompleter"
AppPrompt == <<">", " ">>

VARIABLES
    maxHops,        \* MAX_HOPS
    destination,    \* parameter `destination`
    rlPrompt,       \* rl._prompt
    rlCompleter,    \* rl.completer
    rlListeners,    \* rl.listeners('line'), in order of registration
    rlClosed,       \* the readline interface was closed
    before,         \* prompt, completer and listeners when the selector was called
    pc,             \* where the selector is suspended
    done,           \* local `done`
    selected,       \* local `selected`
    lastSelected,   \* local `lastSelected` of the running iteration
    validPeers,     \* local `validPeers` of the running iteration
    oldPrompt,      \* local `oldPrompt`
    oldCompleter,   \* local `oldCompleter`
    oldListeners,   \* local `oldListeners`
    iteration,      \* number of the running iteration (names its promise)
    promise,        \* value of the line promise of the running iteration
    parsing,        \* calls of the line handler suspended in checkPeerIdInput
    submitted,      \* number of lines the operator has submitted
    origin,         \* history: the number of the line each entry of `selected` came from
    console,        \* what the selector printed when it last went on after an await
    cmd,            \* the class whose execute runs: SendMessage or SendMessageFancy
    routing,        \* state.routing
    cmdQuery,       \* parameter `query` of execute
    epc,            \* where execute is suspended
    recipient,      \* local `peerId` of execute, the `recipient` of the send
    transportCalls, \* calls of node.sendMessage made by the running execute
    response,       \* what the running execute printed and what it returned
    sends,          \* number of executions started
    sendStart,      \* history: the value of `submitted` when execute was called
    earlier,        \* history: the peers selected in earlier executions
    account,        \* this.node.paymentChannels.account.address
    channels,       \* what getMyOpenChannelInstances returns
    lpc,            \* where ListOpenChannels.execute is suspended
    index,          \* the channel the for loop is at
    result,         \* local `result`
    listResponse    \* what ListOpenChannels.execute returned

sendVars == <<cmd, routing, cmdQuery, epc, recipient, transportCalls, response, sends,
              sendStart, earlier>>

listVars == <<account, channels, lpc, index, result, listResponse>>

\* no ListOpenChannels command is running
ListIdle ==
    /\ account = Self
    /\ channels = <<>>
    /\ lpc = "idle"
    /\ index = 0
    /\ result = <<>>
    /\ listResponse = "pending"

vars == <<maxHops, destination, rlPrompt, rlCompleter, rlListeners, rlClosed,
          before, pc, done, selected, lastSelected, validPeers, oldPrompt,
          oldCompleter, oldListeners, iteration, promise, parsing, submitted,
          origin, console, sendVars, listVars>>

rlVars == <<rlPrompt, rlCompleter, rlListeners>>
localVars == <<done, selected, lastSelected, validPeers, oldPrompt,
               oldCompleter, oldListeners, iteration>>

Range(s) == {s[i] : i \in 1..Len(s)}

\* `selected.length > 0 ? selected[selected.length - 1] : this.node.peerInfo.id`
LastSelected(sel) == IF Len(sel) > 0 THEN sel[Len(sel)] ELSE Self

\* a handler that takes only a line break for an empty submission
IsEmptySubmissionNewlineOnly(query) == query = <<"\n">>

\* the condition of the handler's first branch
IsEmptySubmission(query) ==
    \/ query = <<"\n">>
    \/ query = <<>>
    \/ Len(query) = 0

\* a completer that offers only the peers equal to the typed line
CompleterExact(peers, line) ==
    {toB58String(peer) : peer \in {p \in peers : toB58String(p) = line}}

\* what the completer installed by the selector answers
Completer(peers, line) ==
    {toB58String(peer) : peer \in {p \in peers : startsWith(toB58String(p), line)}}

\* an execute that has printed no message and has not returned
NoResponse == [printed |-> <<>>, returned |-> "pending"]

\* the state in which selectIntermediateNodes(rl, destination) is entered,
\* suspended in its first getOpenChannels
InitFor(hops) ==
    /\ maxHops \in hops
    /\ destination \in Peers
    /\ rlPrompt = AppPrompt
    /\ rlCompleter = AppCompleter
    /\ rlListeners \in {SubSeq(AppListeners, 1, n) : n \in 1..Len(AppListeners)}
    /\ rlClosed = FALSE
    /\ before = [prompt |-> rlPrompt, completer |-> rlCompleter, listeners |-> rlListeners]
    /\ pc = "getOpenChannels"
    /\ done = FALSE
    /\ selected = <<>>
    /\ lastSelected = LastSelected(<<>>)
    /\ validPeers = {}
    /\ oldPrompt = <<>>
    /\ oldCompleter = "undefined"
    /\ oldListeners = <<>>
    /\ iteration = 1
    /\ promise = Pending
    /\ parsing = {}
    /\ submitted = 0
    /\ origin = <<>>
    /\ console = <<"select">>
    /\ cmd = "SendMessageFancy"
    /\ routing = "manual"
    /\ cmdQuery = toB58String(destination)
    /\ epc = "selectIntermediateNodes"
    /\ recipient = destination
    /\ transportCalls = 1
    /\ response = NoResponse
    /\ sends = 1
    /\ sendStart = 0
    /\ earlier = {}
    /\ ListIdle

\* MAX_HOPS counts the sender and the destination with the intermediate
\* peers: a route exists from 2 on
Init == InitFor(2..MaxMaxHops)

\* every MAX_HOPS from 1 on, the degenerate value included
InitAnyHops == InitFor(1..MaxMaxHops)

\* getOpenChannels resolves: the selector detaches the application's prompt,
\* completer and listeners, installs its own and awaits the line promise
Detach ==
    /\ pc = "getOpenChannels"
    /\ validPeers' = getOpenChannels(lastSelected)
    /\ oldPrompt' = rlPrompt
    /\ oldCompleter' = rlCompleter
    /\ oldListeners' = rlListeners
    /\ rlPrompt' = SelectorPrompt
    /\ rlCompleter' = SelectorCompleter
    /\ rlListeners' = <<SelectorListener>>
    /\ promise' = Pending
    /\ pc' = "line"
    /\ console' = IF validPeers' = {} THEN <<"noPeers">> ELSE <<>>
    /\ UNCHANGED <<listVars, maxHops, destination, rlClosed, before, done, selected,
                   lastSelected, iteration, parsing, submitted, origin>>
    /\ UNCHANGED sendVars

\* the handler of line 152 called with `query`
OnLine(query) ==
    IF IsEmptySubmission(query)
    THEN /\ rlListeners' = <<>>
         /\ promise' = IF promise.settled THEN promise
                       ELSE Resolved(Undefined, submitted + 1)
         /\ pc' = IF promise.settled THEN pc ELSE "resolved"
         /\ UNCHANGED parsing
    ELSE /\ Cardinality(parsing) < MaxPending
         /\ parsing' = parsing \cup
                {[line |-> submitted + 1, query |-> query, iteration |-> iteration]}
         /\ UNCHANGED <<rlListeners, promise, pc>>

\* the operator submits a line: readline emits 'line' to the listeners
\* attached at that moment. A promise resolved after an await is continued
\* in the same turn of the event loop, so no line arrives in between.
SubmitLine(query) ==
    /\ ~rlClosed
    /\ submitted < MaxLines
    /\ pc = "resolved" => promise.value = Undefined
    /\ submitted' = submitted + 1
    /\ IF SelectorListener \in Range(rlListeners)
       THEN OnLine(query)
       ELSE UNCHANGED <<rlListeners, promise, pc, parsing>>
    /\ UNCHANGED <<listVars, maxHops, destination, rlPrompt, rlCompleter, rlClosed, before,
                   localVars, origin, console>>
    /\ UNCHANGED sendVars

\* the update without the comparison with the destination
SelectNoDestinationCheck(sel, dest, peerId) ==
    IF peerId = Undefined THEN sel
    ELSE IF \E i \in 1..Len(sel) : Equals(sel[i], peerId) THEN sel
    ELSE Append(sel, peerId)

\* the update without the search for the peer in the list
SelectNoDuplicateCheck(sel, dest, peerId) ==
    IF peerId = Undefined THEN sel
    ELSE IF Equals(dest, peerId) THEN sel
    ELSE Append(sel, peerId)

\* the update putting the new peer in front
SelectPrepending(sel, dest, peerId) ==
    IF peerId = Undefined THEN sel
    ELSE IF Equals(dest, peerId) THEN sel
    ELSE IF \E i \in 1..Len(sel) : Equals(sel[i], peerId) THEN sel
    ELSE <<peerId>> \o sel

\* the update refusing the local node as an intermediate peer
SelectRejectingSelf(sel, dest, peerId) ==
    IF peerId = Undefined THEN sel
    ELSE IF Equals(dest, peerId) THEN sel
    ELSE IF Equals(Self, peerId) THEN sel
    ELSE IF \E i \in 1..Len(sel) : Equals(sel[i], peerId) THEN sel
    ELSE Append(sel, peerId)

\* lines 175 to 190: the new value of `selected`
Select(sel, dest, peerId) ==
    IF peerId = Undefined THEN sel
    ELSE IF Equals(dest, peerId) THEN sel
    ELSE IF \E i \in 1..Len(sel) : Equals(sel[i], peerId) THEN sel
    ELSE Append(sel, peerId)

\* lines 175 to 190: what is printed
Report(sel, dest, peerId) ==
    IF peerId = Undefined THEN <<>>
    ELSE IF Equals(dest, peerId) THEN <<"sameAsDestination">>
    ELSE IF \E i \in 1..Len(sel) : Equals(sel[i], peerId) THEN <<"alreadySelected">>
    ELSE <<>>

\* the loop ending one entry early
DoneOneEarly(sel, hops, peerId) ==
    \/ peerId = Undefined
    \/ Len(sel) >= hops - 2

\* the loop ending one entry late
DoneOneLate(sel, hops, peerId) ==
    \/ peerId = Undefined
    \/ Len(sel) >= hops

\* lines 175 to 177 and 193 to 195: the new value of `done`
Done(sel, hops, peerId) ==
    \/ peerId = Undefined
    \/ Len(sel) >= hops - 1

\* the reattachment without the removeAllListeners of line 172
ReattachKeepingSelector(listeners) == <<SelectorListener>> \o listeners

\* lines 198 to 202 after the removeAllListeners of line 172
Reattach(listeners) == <<>> \o listeners

\* a handler that gives the selection up when checkPeerIdInput rejects
ParseDoneAborting(call) ==
    /\ call \in parsing
    /\ parsing' = parsing \ {call}
    /\ IF call.iteration = iteration /\ ~promise.settled
       THEN /\ promise' = Resolved(checkPeerIdInput(call.query).peerId, call.line)
            /\ pc' = "resolved"
       ELSE UNCHANGED <<promise, pc>>
    /\ console' = IF checkPeerIdInput(call.query).ok THEN <<>> ELSE <<"invalid">>
    /\ UNCHANGED <<listVars, maxHops, destination, rlVars, rlClosed, before, localVars,
                   submitted, origin>>
    /\ UNCHANGED sendVars

\* a pending checkPeerIdInput settles and the handler goes on from line 160
ParseDone(call) ==
    /\ call \in parsing
    /\ parsing' = parsing \ {call}
    /\ IF /\ checkPeerIdInput(call.query).ok
          /\ call.iteration = iteration
          /\ ~promise.settled
       THEN /\ promise' = Resolved(checkPeerIdInput(call.query).peerId, call.line)
            /\ pc' = "resolved"
       ELSE UNCHANGED <<promise, pc>>
    /\ console' = IF checkPeerIdInput(call.query).ok THEN <<>> ELSE <<"invalid">>
    /\ UNCHANGED <<listVars, maxHops, destination, rlVars, rlClosed, before, localVars,
                   submitted, origin>>
    /\ UNCHANGED sendVars

\* the line promise is resolved: lines 172 to 203, then either the return of
\* line 205 or the next iteration up to its getOpenChannels
Resume ==
    /\ pc = "resolved"
    /\ selected' = Select(selected, destination, promise.value)
    /\ done' = Done(selected', maxHops, promise.value)
    /\ rlPrompt' = oldPrompt
    /\ rlCompleter' = oldCompleter
    /\ rlListeners' = Reattach(oldListeners)
    /\ IF done'
       THEN /\ pc' = "returned"
            /\ UNCHANGED <<lastSelected, iteration>>
       ELSE /\ pc' = "getOpenChannels"
            /\ lastSelected' = LastSelected(selected')
            /\ iteration' = iteration + 1
    /\ origin' = IF selected' = selected THEN origin ELSE Append(origin, promise.line)
    /\ console' = Report(selected, destination, promise.value)
                   \o (IF done' THEN <<>> ELSE <<"select">>)
    /\ UNCHANGED <<listVars, maxHops, destination, rlClosed, before, validPeers, oldPrompt,
                   oldCompleter, oldListeners, promise, parsing, submitted>>
    /\ UNCHANGED sendVars

\* what rl.completer answers for a partial line in the current state (the
\* application's completer is not part of this file: no hits are modelled)
Complete(line) ==
    IF rlCompleter = SelectorCompleter THEN Completer(validPeers, line) ELSE {}

\* the operator ends the input: readline emits 'close' and no more lines
Close ==
    /\ ~rlClosed
    /\ rlClosed' = TRUE
    /\ UNCHANGED <<listVars, maxHops, destination, rlVars, before, pc, localVars, promise,
                   parsing, submitted, origin, console>>
    /\ UNCHANGED sendVars

Next ==
    \/ Detach
    \/ \E query \in Lines : SubmitLine(query)
    \/ \E call \in parsing : ParseDone(call)
    \/ Resume
    \/ Close

Spec == Init /\ [][Next]_vars

SpecAnyHops == InitAnyHops /\ [][Next]_vars

\* The event loop runs every continuation that is ready: a resolved
\* getOpenChannels, a settled checkPeerIdInput, a resolved line promise.
\* Nothing obliges the operator to submit a line or to close the input.
Fairness ==
    /\ WF_vars(Detach)
    /\ WF_vars(\E call \in parsing : ParseDone(call))
    /\ WF_vars(Resume)

FairSpec == Init /\ [][Next]_vars /\ Fairness

\* ------------------------------------------------- the send commands
\* SendMessage.execute and SendMessageFancy.execute, with the transport
\* node.sendMessage that asks SendMessageFancy for the path: the selector
\* above runs inside the execute that called the transport.

Routings == {"manual", "auto", "direct"}
Commands == {"SendMessage", "SendMessageFancy"}

\* the characters \w and \s of a regular expression match
WordChars == Range(Alphabet) \cup {"Q", "R", "m", "z"}
IsWord(ch) == ch \in WordChars
IsSpace(ch) == ch = " "

\* the matches of /(\w+)\s/ in `text`: a whole word with a space behind it
WordBeforeSpace(text) ==
    {m \in (1..Len(text)) \X (1..Len(text)) :
        /\ m[1] <= m[2]
        /\ \A k \in m[1]..m[2] : IsWord(text[k])
        /\ m[1] = 1 \/ ~IsWord(text[m[1] - 1])
        /\ m[2] < Len(text)
        /\ IsSpace(text[m[2] + 1])}

\* this._assertUsage: SendMessageFancy takes the whole query for the peer,
\* SendMessage the first match of /(\w+)\s(.*)/
assertUsage(c, text) ==
    IF c = "SendMessageFancy"
    THEN [err |-> Len(text) = 0, peerIdString |-> text]
    ELSE IF WordBeforeSpace(text) = {}
         THEN [err |-> TRUE, peerIdString |-> <<>>]
         ELSE LET first == CHOOSE m \in WordBeforeSpace(text) :
                               \A n \in WordBeforeSpace(text) : m[1] <= n[1]
              IN [err |-> FALSE, peerIdString |-> SubSeq(text, first[1], first[2])]

\* the queries a send command is called with
Message == <<" ", "m">>
Unknown == <<"Q", "z">>
Queries(c) ==
    IF c = "SendMessageFancy"
    THEN {<<>>, Unknown} \cup {toB58String(p) : p \in Peers}
    ELSE {<<>>, toB58String(Self), Unknown \o Message}
            \cup {toB58String(p) \o Message : p \in Peers}

\* the lines the operator answers the selector with during a send: the empty
\* line and the identifiers of the peers
SendLines == {EmptyLine} \cup {toB58String(p) : p \in Peers}

\* lines 99 to 102: the transport gets the selector as its path callback
UsesSelector(c, r) == c = "SendMessageFancy" /\ r = "manual"

\* lines 52-53 and 76-77: where execute goes after _assertUsage
AfterUsage(err) == IF err THEN "done" ELSE "checkPeerIdInput"

\* an execute that goes on after checkPeerIdInput rejected
AfterCheckIgnoringError(c, ok) ==
    IF c = "SendMessageFancy" THEN "question" ELSE "sendMessage"

\* lines 56-62 and 80-88: where execute goes after checkPeerIdInput
AfterCheck(c, ok) ==
    IF ~ok THEN "done"
    ELSE IF c = "SendMessageFancy" THEN "question" ELSE "sendMessage"

\* lines 58-60 and 82-85: SendMessage returns the message, SendMessageFancy
\* prints it
ParseError(c) ==
    IF c = "SendMessage"
    THEN [printed |-> <<>>, returned |-> "invalidPeerId"]
    ELSE [printed |-> <<"invalidPeerId">>, returned |-> "undefined"]

\* lines 35-37 and 113-115: SendMessage prints the failure, SendMessageFancy
\* returns it
TransportFailure(c, resp) ==
    IF c = "SendMessage"
    THEN [printed |-> Append(resp.printed, "failure"), returned |-> "undefined"]
    ELSE [printed |-> resp.printed, returned |-> "failure"]

\* a selector that keeps its list between two calls
NewPathKept == selected

\* line 120: the list a call of the selector starts with
NewPath == <<>>

\* a send command is called: lines 52-53 and 76-77
Execute(c, text) ==
    /\ epc \in {"idle", "done"}
    /\ sends < MaxSends
    /\ cmd' = c
    /\ cmdQuery' = text
    /\ sends' = sends + 1
    /\ sendStart' = submitted
    /\ transportCalls' = 0
    /\ recipient' = Undefined
    /\ epc' = AfterUsage(assertUsage(c, text).err)
    /\ response' = IF assertUsage(c, text).err
                   THEN [printed |-> <<>>, returned |-> "usage"]
                   ELSE NoResponse
    /\ pc' = "idle"
    /\ UNCHANGED <<listVars, maxHops, destination, rlVars, rlClosed, before, localVars,
                   promise, parsing, submitted, origin, console, routing, earlier>>

\* checkPeerIdInput of the recipient settles: lines 56-62 and 80-88;
\* SendMessage goes on into sendMessage and calls the transport (line 30)
CheckPeerIdDone ==
    /\ epc = "checkPeerIdInput"
    /\ LET parsed == checkPeerIdInput(assertUsage(cmd, cmdQuery).peerIdString)
       IN /\ recipient' = parsed.peerId
          /\ epc' = AfterCheck(cmd, parsed.ok)
          /\ response' = IF parsed.ok THEN response ELSE ParseError(cmd)
    /\ transportCalls' = IF epc' = "sendMessage" THEN transportCalls + 1
                         ELSE transportCalls
    /\ UNCHANGED <<listVars, maxHops, destination, rlVars, rlClosed, before, pc, localVars,
                   promise, parsing, submitted, origin, console, cmd, routing,
                   cmdQuery, sends, sendStart, earlier>>

\* the operator answers rl.question: lines 88 to 112, the three branches
\* call the transport
AnswerQuestion ==
    /\ epc = "question"
    /\ ~rlClosed
    /\ epc' = "sendMessage"
    /\ transportCalls' = transportCalls + 1
    /\ UNCHANGED <<listVars, maxHops, destination, rlVars, rlClosed, before, pc, localVars,
                   promise, parsing, submitted, origin, console, cmd, routing,
                   cmdQuery, recipient, response, sends, sendStart, earlier>>

\* the transport calls its path callback: selectIntermediateNodes is entered
\* (lines 100-102 and 118-129)
AskPath ==
    /\ epc = "sendMessage"
    /\ UsesSelector(cmd, routing)
    /\ pc = "idle"
    /\ epc' = "selectIntermediateNodes"
    /\ destination' = recipient
    /\ before' = [prompt |-> rlPrompt, completer |-> rlCompleter,
                  listeners |-> rlListeners]
    /\ pc' = "getOpenChannels"
    /\ done' = FALSE
    /\ selected' = NewPath
    /\ lastSelected' = LastSelected(selected')
    /\ validPeers' = {}
    /\ oldPrompt' = <<>>
    /\ oldCompleter' = "undefined"
    /\ oldListeners' = <<>>
    /\ iteration' = iteration + 1
    /\ promise' = Pending
    /\ origin' = <<>>
    /\ console' = <<"select">>
    /\ earlier' = earlier \cup Range(selected)
    /\ UNCHANGED <<listVars, maxHops, rlVars, rlClosed, parsing, submitted, cmd, routing,
                   cmdQuery, recipient, transportCalls, response, sends, sendStart>>

\* a transport failure answered by a second call of the transport
TransportSettlesRetrying(ok) ==
    /\ \/ epc = "sendMessage" /\ (ok => ~UsesSelector(cmd, routing))
       \/ epc = "selectIntermediateNodes" /\ pc = "returned"
    /\ IF ok
       THEN /\ epc' = "done"
            /\ response' = [response EXCEPT !.returned = "undefined"]
            /\ UNCHANGED transportCalls
       ELSE /\ transportCalls < MaxSends + 1
            /\ epc' = "sendMessage"
            /\ transportCalls' = transportCalls + 1
            /\ response' = TransportFailure(cmd, response)
    /\ UNCHANGED <<listVars, maxHops, destination, rlVars, rlClosed, before, pc, localVars,
                   promise, parsing, submitted, origin, console, cmd, routing,
                   cmdQuery, recipient, sends, sendStart, earlier>>

\* node.sendMessage settles, delivered or raising: lines 29-37 and 97-115.
\* With the selector as callback it delivers once the path is returned.
TransportSettles(ok) ==
    /\ \/ epc = "sendMessage" /\ (ok => ~UsesSelector(cmd, routing))
       \/ epc = "selectIntermediateNodes" /\ pc = "returned"
    /\ epc' = "done"
    /\ response' = IF ok THEN [response EXCEPT !.returned = "undefined"]
                   ELSE TransportFailure(cmd, response)
    /\ UNCHANGED <<listVars, maxHops, destination, rlVars, rlClosed, before, pc, localVars,
                   promise, parsing, submitted, origin, console, cmd, routing,
                   cmdQuery, recipient, transportCalls, sends, sendStart, earlier>>

\* the application before any send command: no selector is running, and
\* MAX_HOPS is the largest value of its range
SendInit ==
    /\ maxHops = MaxMaxHops
    /\ destination = Undefined
    /\ rlPrompt = AppPrompt
    /\ rlCompleter = AppCompleter
    /\ rlListeners = AppListeners
    /\ rlClosed = FALSE
    /\ before = [prompt |-> rlPrompt, completer |-> rlCompleter, listeners |-> rlListeners]
    /\ pc = "idle"
    /\ done = FALSE
    /\ selected = <<>>
    /\ lastSelected = LastSelected(<<>>)
    /\ validPeers = {}
    /\ oldPrompt = <<>>
    /\ oldCompleter = "undefined"
    /\ oldListeners = <<>>
    /\ iteration = 0
    /\ promise = Pending
    /\ parsing = {}
    /\ submitted = 0
    /\ origin = <<>>
    /\ console = <<>>
    /\ cmd = "none"
    /\ routing \in Routings
    /\ cmdQuery = <<>>
    /\ epc = "idle"
    /\ recipient = Undefined
    /\ transportCalls = 0
    /\ response = NoResponse
    /\ sends = 0
    /\ sendStart = 0
    /\ earlier = {}
    /\ ListIdle

\* lines submitted while no selector runs are the application's commands:
\* the send commands among them are the Execute steps. The interface is
\* read by rl.question and by the selector only, so it closes while one of
\* them waits.
SendNext ==
    \/ \E c \in Commands : \E text \in Queries(c) : Execute(c, text)
    \/ CheckPeerIdDone
    \/ AnswerQuestion
    \/ AskPath
    \/ \E ok \in BOOLEAN : TransportSettles(ok)
    \/ Detach
    \/ \E line \in SendLines :
            pc \in {"getOpenChannels", "line", "resolved"} /\ SubmitLine(line)
    \/ \E call \in parsing : ParseDone(call)
    \/ Resume
    \/ epc \in {"question", "selectIntermediateNodes"} /\ Close

SendSpec == SendInit /\ [][SendNext]_vars

\* ------------------------------------------------- ListOpenChannels
\* src/commands/listOpenChannels.ts: execute awaits the account address and
\* the open channels, then walks the channels in the order they came in.

RECURSIVE Pow10(_)
Pow10(n) == IF n = 0 THEN 1 ELSE 10 * Pow10(n - 1)

\* the decimal digits of `n`, `width` of them
Digits(n, width) == [i \in 1..width |-> (n \div Pow10(width - i)) % 10]

\* a decimal fraction is written without the zeros at its end
RECURSIVE StripZeros(_)
StripZeros(digits) ==
    IF Len(digits) > 0 /\ digits[Len(digits)] = 0
    THEN StripZeros(SubSeq(digits, 1, Len(digits) - 1))
    ELSE digits

\* moveDecimalPoint(amount, position) for a position below zero: the amount
\* times 10^position, written in decimal as a whole part and a fraction
moveDecimalPoint(amount, position) ==
    [whole |-> amount \div Pow10(0 - position),
     fraction |-> StripZeros(Digits(amount % Pow10(0 - position), 0 - position))]

\* the literal '0' of lines 89 and 90
Zero == [whole |-> 0, fraction |-> <<>>]

\* utils.isPartyA: the party with the smaller address is party A
isPartyA(self, counterParty) == self < counterParty

\* the balances a channel is opened with
Amounts == {0, 1, Pow10(Decimals), Pow10(Decimals) + 1}

\* a channel the node reports for the account `self`: with a counterparty
\* and the balances 0 <= balance_a <= balance, or not opened yet
ChannelsOf(self) ==
    {[counterparty |-> Undefined, balance |-> 0, balance_a |-> 0]}
    \cup {channel \in [counterparty : Peers \ {self}, balance : Amounts,
                        balance_a : Amounts] : channel.balance_a <= channel.balance}

\* a share that takes the branches of lines 97 to 99 the other way round
MyShareSwapped(self, channel) ==
    IF isPartyA(self, channel.counterparty)
    THEN channel.balance - channel.balance_a
    ELSE channel.balance_a

\* lines 97 to 99: the amount printed as 'My Balance'
MyShare(self, channel) ==
    IF isPartyA(self, channel.counterparty)
    THEN channel.balance_a
    ELSE channel.balance - channel.balance_a

\* lines 82 to 113 with generateOutput: the entry of one channel
Entry(self, id, channel) ==
    IF channel.counterparty = Undefined
    THEN [id |-> id, peerId |-> "pre-opened", status |-> "UNKNOWN",
          totalBalance |-> Zero, myBalance |-> Zero]
    ELSE [id |-> id, peerId |-> toB58String(channel.counterparty), status |-> "OPEN",
          totalBalance |-> moveDecimalPoint(channel.balance, 0 - Decimals),
          myBalance |-> moveDecimalPoint(MyShare(self, channel), 0 - Decimals)]

\* an execute that returns what it has listed when a query raises
OnErrorPartial(listed) == <<"listing", listed>>

\* lines 118 to 120: the catch returns the styled message, `result` is dropped
OnError(listed) == <<"failure">>

\* execute is called: line 73 awaits the account address
ListExecute ==
    /\ lpc = "idle"
    /\ lpc' = "address"
    /\ UNCHANGED <<maxHops, destination, rlVars, rlClosed, before, pc, localVars,
                   promise, parsing, submitted, origin, console, sendVars,
                   account, channels, index, result, listResponse>>

\* the address is there: line 74 awaits getMyOpenChannelInstances
AddressDone ==
    /\ lpc = "address"
    /\ lpc' = "channels"
    /\ UNCHANGED <<maxHops, destination, rlVars, rlClosed, before, pc, localVars,
                   promise, parsing, submitted, origin, console, sendVars,
                   account, channels, index, result, listResponse>>

\* the channels are there: lines 75 to 79
ChannelsDone ==
    /\ lpc = "channels"
    /\ result' = <<>>
    /\ IF Len(channels) = 0
       THEN /\ listResponse' = <<"No open channels found.">>
            /\ lpc' = "done"
            /\ UNCHANGED index
       ELSE /\ lpc' = "loop"
            /\ index' = 1
            /\ UNCHANGED listResponse
    /\ UNCHANGED <<maxHops, destination, rlVars, rlClosed, before, pc, localVars,
                   promise, parsing, submitted, origin, console, sendVars,
                   account, channels>>

\* the queries of one channel are answered: lines 82 to 114, and line 117
\* behind the last channel
ChannelDone ==
    /\ lpc = "loop"
    /\ result' = Append(result, Entry(account, index, channels[index]))
    /\ IF index = Len(channels)
       THEN /\ listResponse' = <<"listing", result'>>
            /\ lpc' = "done"
            /\ UNCHANGED index
       ELSE /\ index' = index + 1
            /\ UNCHANGED <<lpc, listResponse>>
    /\ UNCHANGED <<maxHops, destination, rlVars, rlClosed, before, pc, localVars,
                   promise, parsing, submitted, origin, console, sendVars,
                   account, channels>>

\* one of the awaited queries raises: lines 118 to 120
QueryRaises ==
    /\ lpc \in {"address", "channels", "loop"}
    /\ listResponse' = OnError(result)
    /\ lpc' = "done"
    /\ UNCHANGED <<maxHops, destination, rlVars, rlClosed, before, pc, localVars,
                   promise, parsing, submitted, origin, console, sendVars,
                   account, channels, index, result>>

\* the node with its account and its open channels, no command running
ListInit ==
    /\ maxHops = MaxMaxHops
    /\ destination = Undefined
    /\ rlPrompt = AppPrompt
    /\ rlCompleter = AppCompleter
    /\ rlListeners = AppListeners
    /\ rlClosed = FALSE
    /\ before = [prompt |-> rlPrompt, completer |-> rlCompleter, listeners |-> rlListeners]
    /\ pc = "idle"
    /\ done = FALSE
    /\ selected = <<>>
    /\ lastSelected = LastSelected(<<>>)
    /\ validPeers = {}
    /\ oldPrompt = <<>>
    /\ oldCompleter = "undefined"
    /\ oldListeners = <<>>
    /\ iteration = 0
    /\ promise = Pending
    /\ parsing = {}
    /\ submitted = 0
    /\ origin = <<>>
    /\ console = <<>>
    /\ cmd = "none"
    /\ routing = "manual"
    /\ cmdQuery = <<>>
    /\ epc = "idle"
    /\ recipient = Undefined
    /\ transportCalls = 0
    /\ response = NoResponse
    /\ sends = 0
    /\ sendStart = 0
    /\ earlier = {}
    /\ account \in Peers
    /\ channels \in UNION {[1..n -> ChannelsOf(account)] : n \in 0..MaxChannels}
    /\ lpc = "idle"
    /\ index = 0
    /\ result = <<>>
    /\ listResponse = "pending"

ListNext ==
    \/ ListExecute
    \/ AddressDone
    \/ ChannelsDone
    \/ ChannelDone
    \/ QueryRaises

ListSpec == ListInit /\ [][ListNext]_vars

\* ------------------------------------------------------------------ claims

Active == pc \in {"getOpenChannels", "line", "resolved"}
Rejects(peerId) ==
    \/ Equals(destination, peerId)
    \/ \E i \in 1..Len(selected) : Equals(selected[i], peerId)
IsBlank(query) == Len(query) > 0 /\ \A i \in 1..Len(query) : query[i] = " "
\* the step in which the selector goes on after its line promise
Resumes == pc = "resolved" /\ pc' # "resolved"

\* C1: in every state of the loop and in the returned value, the path holds
\* neither the destination nor the same peer twice.
C1_NoDestinationNoDuplicate ==
    /\ \A i \in 1..Len(selected) : ~Equals(selected[i], destination)
    /\ \A i, j \in 1..Len(selected) : i # j => ~Equals(selected[i], selected[j])

\* a peer was added and a later submission was rejected
C1_Witness ==
    /\ Len(selected) >= 1
    /\ Len(console) >= 1
    /\ console[1] \in {"sameAsDestination", "alreadySelected"}

\* C2: for every MAX_HOPS from 1 on, the path never holds more than
\* MAX_HOPS - 1 entries.
C2_LengthBelowMaxHops == Len(selected) <= maxHops - 1

\* C3: once the selector has returned, prompt, completer and 'line' listeners
\* of the readline interface are the ones found when it was called: the same
\* listeners in the same order, none of the selector's, none twice.
C3_Restored ==
    pc = "returned" =>
        /\ rlPrompt = before.prompt
        /\ rlCompleter = before.completer
        /\ rlListeners = before.listeners

\* returned in the third iteration, after an entry, a submission that added
\* none, and an end by empty line or by capacity, with two listeners to restore
C3_Witness ==
    /\ pc = "returned"
    /\ iteration = 3
    /\ Len(selected) = 1
    /\ Len(before.listeners) = 2

\* C4: from the call of the selector to its return, no submitted line reaches
\* a listener of the application, and the application's completer is not the
\* one installed.
C4_Exclusive ==
    [][(Active /\ submitted' = submitted + 1) =>
          /\ \A i \in 1..Len(rlListeners) :
                \A j \in 1..Len(before.listeners) : rlListeners[i] # before.listeners[j]
          /\ rlCompleter # before.completer]_vars

\* C5: when the input is closed while the selector awaits a line, the
\* selector returns in the end, with the readline interface restored.
C5_ClosedReturns ==
    (rlClosed /\ pc = "line") ~>
        (pc = "returned" /\ rlListeners = before.listeners)

\* C6: an empty line submitted while the selector awaits a line ends the loop
\* and the path returned is the path held when it was submitted: neither that
\* line nor a later one changes it.
C6_EmptyLineEnds ==
    [][/\ (pc = "line" /\ SubmitLine(EmptyLine)) =>
            /\ pc' = "resolved"
            /\ promise' = Resolved(Undefined, submitted')
            /\ selected' = selected
       /\ (pc = "resolved" /\ promise.value = Undefined) =>
            /\ pc' \in {"resolved", "returned"}
            /\ promise' = promise
            /\ selected' = selected
       /\ pc = "returned" =>
            /\ pc' = "returned"
            /\ selected' = selected]_vars

\* returned by an empty line, with an entry in the path and a line submitted
\* after the empty one
C6_Witness ==
    /\ pc = "returned"
    /\ promise.value = Undefined
    /\ Len(selected) >= 1
    /\ submitted > promise.line

\* C7: a submission of blanks only ends the loop as an empty one does; it is
\* never handed to checkPeerIdInput.
C7_BlankIsEmpty == \A call \in parsing : ~IsBlank(call.query)

\* C8: the step that adds the entry number MAX_HOPS - 1 returns, with no
\* further line awaited, and the entries of the returned path are in the
\* order in which their lines were submitted.
C8_CapacityEnds ==
    /\ [][(Len(selected') > Len(selected) /\ Len(selected') = maxHops - 1) =>
              (pc' = "returned" /\ done')]_vars
    /\ [](/\ Len(origin) = Len(selected)
          /\ \A i, j \in 1..Len(origin) : i < j => origin[i] < origin[j])

\* MAX_HOPS = 3: returned on the second entry, no empty line submitted
C8_Witness ==
    /\ maxHops = 3
    /\ pc = "returned"
    /\ Len(selected) = 2
    /\ promise.value = selected[2]
    /\ origin[1] < origin[2]

PartialLines ==
    UNION {{SubSeq(l, 1, n) : n \in 0..Len(l)} : l \in Lines} \cup {<<"Q", "z">>}
\* the peer the open channels of an iteration are asked for
Reference == IF selected = <<>> THEN Self ELSE selected[Len(selected)]
IsPrefix(s, t) == Len(s) <= Len(t) /\ SubSeq(t, 1, Len(s)) = s

\* C11: a line that checkPeerIdInput rejects is reported, and nothing else
\* happens: the path, the line promise, the position of the selector and the
\* listeners stay as they are, so the selector still awaits a line.
C11_MalformedRecovered ==
    [][\A call \in parsing :
          (ParseDone(call) /\ ~checkPeerIdInput(call.query).ok) =>
             /\ console' = <<"invalid">>
             /\ selected' = selected
             /\ promise' = promise
             /\ pc' = pc
             /\ done' = done
             /\ rlListeners' = rlListeners]_vars

\* the malformed line was reported in the second iteration, which still
\* awaits a line with the selector's listener attached
C11_Witness ==
    /\ pc = "line"
    /\ iteration = 2
    /\ console = <<"invalid">>
    /\ ~promise.settled
    /\ rlListeners = <<SelectorListener>>

\* C14: every line that parses resolves the line promise of its iteration
\* (and so is added or rejected), and lines are handled in the order of their
\* submission.
C14_EveryLineHasOutcome ==
    [][\A call \in parsing :
          (ParseDone(call) /\ checkPeerIdInput(call.query).ok) =>
             /\ promise' = Resolved(checkPeerIdInput(call.query).peerId, call.line)
             /\ \A other \in parsing : other.line >= call.line]_vars

\* C15: the open channels of an iteration are those of the last peer of the
\* path, or of the local node for an empty path, and the completions offered
\* while a line is awaited are the identifiers of these peers that start
\* with the typed text.
C15_ReferenceAndCompletions ==
    /\ pc \in {"getOpenChannels", "line"} => lastSelected = Reference
    /\ pc = "line" =>
         /\ validPeers = getOpenChannels(Reference)
         /\ \A line \in PartialLines :
               Complete(line) =
                  {id \in {toB58String(p) : p \in getOpenChannels(Reference)} :
                      IsPrefix(line, id)}

\* the third iteration awaits a line after an entry and a rejection, and
\* the typed text selects some of the candidates and not all
C15_Witness ==
    /\ pc = "line"
    /\ iteration = 3
    /\ Len(selected) = 1
    /\ origin = <<1>>
    /\ \E line \in PartialLines :
          /\ Complete(line) # {}
          /\ Complete(line) # Complete(<<>>)

\* C16: in every step the path stays a prefix of itself and grows by one
\* entry at most, and it grows only by the peer of an accepted submission.
C16_AppendOnly ==
    [][/\ IsPrefix(selected, selected')
       /\ Len(selected') <= Len(selected) + 1
       /\ selected' # selected =>
            /\ Resumes
            /\ promise.value # Undefined
            /\ ~Rejects(promise.value)
            /\ selected' = Append(selected, promise.value)]_vars

\* a second entry was appended behind the first
C16_Witness ==
    /\ Len(selected) = 2
    /\ selected[2] = promise.value
    /\ origin[1] < origin[2]

\* C17: a peer that parses, is not the destination and is not in the path is
\* added, whatever the local node and the candidates of the iteration are.
C17_AcceptanceIgnoresCandidates ==
    [][(Resumes /\ promise.value # Undefined /\ ~Rejects(promise.value)) =>
          selected' = Append(selected, promise.value)]_vars

\* the local node was added in an iteration that had no candidate at all
C17_Witness ==
    /\ Len(selected) = 2
    /\ selected[2] = Self
    /\ promise.value = Self
    /\ validPeers = {}

\* the failure messages an execute has given the operator
FailureMessages(resp) ==
    Cardinality({i \in 1..Len(resp.printed) : resp.printed[i] = "failure"})
        + (IF resp.returned = "failure" THEN 1 ELSE 0)

\* C12: an execute calls the transport once at most, a transport failure
\* gives the operator one failure message and ends the command, which
\* returns normally.
C12_TransportFailureOnce ==
    /\ [](/\ transportCalls <= 1
          /\ FailureMessages(response) <= transportCalls
          /\ epc \in {"idle", "checkPeerIdInput", "question", "sendMessage",
                      "selectIntermediateNodes", "done"}
          /\ epc = "done" => response.returned \in
                               {"usage", "invalidPeerId", "undefined", "failure"})
    /\ [][FailureMessages(response') > FailureMessages(response) =>
            /\ epc \in {"sendMessage", "selectIntermediateNodes"}
            /\ epc' = "done"
            /\ transportCalls' = transportCalls
            /\ FailureMessages(response') = 1]_vars

\* the transport raised after the operator had chosen a path
C12_Witness ==
    /\ cmd = "SendMessageFancy"
    /\ epc = "done"
    /\ pc = "returned"
    /\ Len(selected) = 1
    /\ transportCalls = 1
    /\ response.returned = "failure"

\* C13: the selector runs for SendMessageFancy under manual routing only,
\* it starts with an empty path, and every entry of its path comes from a
\* line submitted during the send it runs in.
C13_FreshPathPerSend ==
    /\ [](pc # "idle" =>
            /\ cmd = "SendMessageFancy"
            /\ routing = "manual"
            /\ Len(origin) = Len(selected)
            /\ \A i \in 1..Len(origin) : origin[i] > sendStart)
    /\ [][(pc = "idle" /\ pc' # "idle") => selected' = <<>>]_vars

\* the second send selected a peer that the first send had selected too
C13_Witness ==
    /\ sends = 2
    /\ pc # "idle"
    /\ Len(selected) = 1
    /\ selected[1] \in earlier
    /\ origin[1] > sendStart

\* the recipient of the running execute fails _assertUsage or checkPeerIdInput
RecipientFails ==
    /\ cmd \in Commands
    /\ \/ assertUsage(cmd, cmdQuery).err
       \/ ~checkPeerIdInput(assertUsage(cmd, cmdQuery).peerIdString).ok

\* C18: an execute whose recipient fails the usage test or the parse calls
\* no transport, asks no message, starts no selector, and ends with the error
\* returned or printed.
C18_BadRecipientNoSend ==
    RecipientFails =>
        /\ epc \in {"checkPeerIdInput", "done"}
        /\ transportCalls = 0
        /\ pc = "idle"
        /\ epc = "done" =>
             \/ assertUsage(cmd, cmdQuery).err /\ response = [printed |-> <<>>, returned |-> "usage"]
             \/ ~assertUsage(cmd, cmdQuery).err /\ response = ParseError(cmd)

\* SendMessageFancy ended on a recipient that does not parse, after a send
\* that had run the selector
C18_Witness ==
    /\ RecipientFails
    /\ cmd = "SendMessageFancy"
    /\ ~assertUsage(cmd, cmdQuery).err
    /\ epc = "done"
    /\ sends = 2
    /\ Len(selected) = 1
    /\ response.printed = <<"invalidPeerId">>

\* the amount a printed balance stands for
Value(printed) ==
    LET digits == printed.fraction
        Sum[i \in 0..Len(digits)] ==
            IF i = 0 THEN 0 ELSE Sum[i - 1] + digits[i] * Pow10(Decimals - i)
    IN printed.whole * Pow10(Decimals) + Sum[Len(digits)]

\* C19: a finished listing has one entry per channel, in the order of the
\* channels; an entry with a counterparty prints the balance as total and
\* balance_a (party A) or balance - balance_a (party B) as the own share,
\* which with the other party's share makes the total; an entry without a
\* counterparty prints 0 twice; no channel gives the no-channels message, a
\* query that raises gives the failure message alone.
C19_Listing ==
    /\ lpc = "done" => listResponse[1] \in {"No open channels found.", "listing", "failure"}
    /\ (lpc = "done" /\ listResponse[1] = "No open channels found.") => Len(channels) = 0
    /\ (lpc = "done" /\ listResponse[1] = "failure") => Len(listResponse) = 1
    /\ (lpc = "done" /\ listResponse[1] = "listing") =>
         /\ Len(channels) > 0
         /\ Len(listResponse[2]) = Len(channels)
         /\ \A i \in 1..Len(channels) :
              LET channel == channels[i]
                  entry == listResponse[2][i]
                  mine == IF account < channel.counterparty
                          THEN channel.balance_a
                          ELSE channel.balance - channel.balance_a
                  theirs == IF account < channel.counterparty
                            THEN channel.balance - channel.balance_a
                            ELSE channel.balance_a
              IN /\ entry.id = i
                 /\ IF channel.counterparty = Undefined
                    THEN entry.totalBalance = Zero /\ entry.myBalance = Zero
                    ELSE /\ entry.peerId = toB58String(channel.counterparty)
                         /\ Value(entry.totalBalance) = channel.balance
                         /\ Value(entry.myBalance) = mine
                         /\ entry.myBalance = moveDecimalPoint(mine, 0 - Decimals)
                         /\ Value(entry.myBalance)
                              + Value(moveDecimalPoint(theirs, 0 - Decimals))
                              = Value(entry.totalBalance)

\* a listing of two channels: the account is party B of the first and holds
\* a share with a whole part and a fraction, the second has no counterparty
C19_Witness ==
    /\ lpc = "done"
    /\ listResponse[1] = "listing"
    /\ Len(channels) = 2
    /\ channels[1].counterparty # Undefined
    /\ ~isPartyA(account, channels[1].counterparty)
    /\ channels[1].balance = Pow10(Decimals) + 1
    /\ channels[1].balance_a = 0
    /\ listResponse[2][1].myBalance = [whole |-> 1, fraction |-> Append([i \in 1..(Decimals - 1) |-> 0], 1)]
    /\ channels[2].counterparty = Undefined

====
